---------------------------- MODULE Spec2Model ----------------------------
(***************************************************************************)
(* A model of src/member.py: the Member class of the parliament scraper.   *)
(*                                                                         *)
(* Text (str, bytes, paths, URIs) is a sequence of tokens; a token is a    *)
(* TLA+ string standing for one character, one byte or one literal piece   *)
(* of a format string.  Concatenation of text is \o.                       *)
(* Optional[T] is a sequence of length at most one: <<>> is None.          *)
(* A JSON object / Python dict is a sequence of <<key, value>> pairs in    *)
(* insertion order, which is the order json.dump writes the keys in.       *)
(***************************************************************************)
EXTENDS Integers, Sequences, FiniteSets, TLC

VARIABLES
    ctor,       \* the arguments Member.__init__ was called with
    member,     \* the Member object
    member2,    \* a second Member object (another member, or from_json's result)
    dirs,       \* the directories on disk
    files,      \* the files on disk: path -> content
    ret,        \* what the last call returned
    lastCall,   \* the last call made: [op, arg, again]; again: the call before
                \* it was the same call with the same arguments
    hist,       \* history: "new" before the first dump_json, "dumped" after one,
                \* "changed" once the member changed after a dump_json,
                \* "redumped" once a dump_json followed such a change
    pc,         \* per running dump_json: the file operation it is to do next
    killed,     \* the running dump_json calls that were interrupted
    call,       \* per running dump_json: its base_path and base_URI
    tree0       \* the tree the running dump_json calls started from

vars == <<ctor, member, member2, dirs, files, ret, lastCall, hist, pc, killed, call, tree0>>

-----------------------------------------------------------------------------
(* Bounds *)

\* the longest activities list post_activity builds
MaxActs == 2
\* the longest alternative_names list
MaxAlt == 2
\* the longest has_name query
MaxQueryLen == 3

-----------------------------------------------------------------------------
(* Python values *)

None == <<>>
Some(x) == <<x>>

\* the characters names are written with
Chars == {"a", "A", "a_acute", "b", "B", " "}

\* str.encode('utf-8') of one character: its bytes, as hex tokens
Utf8Char(c) ==
    CASE c = "a" -> <<"61">>
      [] c = "A" -> <<"41">>
      [] c = "a_acute" -> <<"c3", "a1">>
      [] c = "b" -> <<"62">>
      [] c = "B" -> <<"42">>
      [] c = " " -> <<"20">>

RECURSIVE Utf8(_)
Utf8(s) == IF s = <<>> THEN <<>> ELSE Utf8Char(Head(s)) \o Utf8(Tail(s))

\* hashlib.sha1 of a byte string, hexdigest()[:10].  The truncated digest is
\* taken to be collision-free: the digest of a byte string is the byte string
\* itself in hex, behind a tag.
Sha1Hex10(bytes) == <<"sha1:">> \o bytes

-----------------------------------------------------------------------------
(* Member.__init__ *)

\* a uuid that also hashes the party
MemberUuidWithParty(first_name, last_name, party, province) ==
    Sha1Hex10(Utf8(first_name) \o Utf8(last_name) \o Utf8(province) \o party)

MemberUuid(first_name, last_name, party, province) ==
    Sha1Hex10(Utf8(first_name) \o Utf8(last_name) \o Utf8(province))

NewMember(a) ==
    [ first_name        |-> a.first_name,
      last_name         |-> a.last_name,
      party             |-> a.party,
      province          |-> a.province,
      language          |-> a.language,
      alternative_names |-> a.alternative_names,
      replaces          |-> <<>>,
      activities        |-> <<>>,
      url               |-> a.url,
      date_of_birth     |-> a.date_of_birth,
      gender            |-> a.gender,
      photo_url         |-> a.photo_url,
      uuid              |-> MemberUuid(a.first_name, a.last_name, a.party, a.province) ]

-----------------------------------------------------------------------------
(* util.normalize_str, and Member.has_name *)

\* one character with its diacritic stripped and its case folded
NormChar(c) ==
    CASE c = "A" -> "a"
      [] c = "a_acute" -> "a"
      [] c = "B" -> "b"
      [] OTHER -> c

normalize_str(s) == [i \in 1..Len(s) |-> NormChar(s[i])]

\* the loop of lines 145-147: does some alternative name normalize to query?
RECURSIVE AltLoop(_, _)
AltLoop(query, names) ==
    IF names = <<>> THEN FALSE
    ELSE IF query = normalize_str(Head(names)) THEN TRUE
    ELSE AltLoop(query, Tail(names))

\* has_name without the first-name-first comparison of line 151
has_name_LastFirstOnly(m, q) ==
    LET query == normalize_str(q)
        name  == normalize_str(m.last_name \o <<" ">> \o m.first_name)
    IN  IF m.alternative_names # None /\ Head(m.alternative_names) # <<>>
           /\ AltLoop(query, Head(m.alternative_names))
        THEN TRUE
        ELSE IF query = normalize_str(m.last_name) THEN TRUE
        ELSE query = name

has_name(m, q) ==
    LET query == normalize_str(q)
        name  == normalize_str(m.last_name \o <<" ">> \o m.first_name)
    IN  IF m.alternative_names # None /\ Head(m.alternative_names) # <<>>
           /\ AltLoop(query, Head(m.alternative_names))
        THEN TRUE
        ELSE IF query = normalize_str(m.last_name) THEN TRUE
        ELSE query = name
             \/ query = normalize_str(m.first_name \o <<" ">> \o m.last_name)

-----------------------------------------------------------------------------
(* Member.post_activity, Member.set_replaces *)

\* a post_activity that starts the list over
post_activity_Reset(m, activity) == [m EXCEPT !.activities = <<activity>>]

post_activity(m, activity) == [m EXCEPT !.activities = Append(@, activity)]

set_replaces(m, replaces) == [m EXCEPT !.replaces = replaces]

-----------------------------------------------------------------------------
(* dicts, dates and activities *)

DictHas(d, k) == \E i \in 1..Len(d) : d[i][1] = k

DictGet(d, k) == d[CHOOSE i \in 1..Len(d) : d[i][1] = k][2]

\* d[k] = v: a new key goes last, an old key keeps its place
DictPut(d, k, v) ==
    IF DictHas(d, k)
    THEN [i \in 1..Len(d) |-> IF d[i][1] = k THEN <<k, v>> ELSE d[i]]
    ELSE Append(d, <<k, v>>)

\* defaultdict's d[k]
DefaultGet(d, k, default) == IF DictHas(d, k) THEN DictGet(d, k) ELSE default

\* str(n) for the years that occur
IntStr(n) ==
    CASE n = 1970 -> "1970"
      [] n = 1980 -> "1980"
      [] n = 2021 -> "2021"
      [] n = 2022 -> "2022"

\* datetime.isoformat(): the year, then the rest of the date and the time
Isoformat(date) == <<IntStr(date.year), "-", date.rest>>

\* dateparser.parse on an ISO-formatted date
DateparserParse(text) ==
    [ year |-> CHOOSE n \in {1970, 1980, 2021, 2022} : IntStr(n) = text[1],
      rest |-> text[3] ]

\* str(activity.date.year)
YearKey(activity) == <<IntStr(activity.date.year)>>

\* Activity.dict(base_URI)
ActivityDict(activity, base_URI) == <<"activity:", activity.id, "@">> \o base_URI

\* a pass that starts the bucket over instead of appending to it
GroupOneOverwrite(activity_dict, activity, base_URI) ==
    LET year  == YearKey(activity)
        stamp == Isoformat(activity.date)
        inner == DefaultGet(activity_dict, year, <<>>)
    IN  DictPut(activity_dict, year,
                DictPut(inner, stamp, <<ActivityDict(activity, base_URI)>>))

\* one pass of the loop of lines 100-102
GroupOne(activity_dict, activity, base_URI) ==
    LET year  == YearKey(activity)
        stamp == Isoformat(activity.date)
        inner == DefaultGet(activity_dict, year, <<>>)
        bucket == DefaultGet(inner, stamp, <<>>)
    IN  DictPut(activity_dict, year,
                DictPut(inner, stamp, Append(bucket, ActivityDict(activity, base_URI))))

RECURSIVE GroupFrom(_, _, _)
GroupFrom(activity_dict, activities, base_URI) ==
    IF activities = <<>> THEN activity_dict
    ELSE GroupFrom(GroupOne(activity_dict, Head(activities), base_URI),
                   Tail(activities), base_URI)

\* activity_dict after lines 99-102
GroupActivities(m, base_URI) == GroupFrom(<<>>, m.activities, base_URI)

-----------------------------------------------------------------------------
(* the file system *)

\* os.makedirs(p, exist_ok=True): p and every missing parent
MakeDirs(d, p) ==
    d \cup { SubSeq(p, 1, i) : i \in { j \in 1..Len(p) : j = Len(p) \/ p[j + 1] = "/" } }

\* open(p, 'a+'): the file exists and keeps what it held
OpenAppend(f, p) == [q \in DOMAIN f \cup {p} |-> IF q \in DOMAIN f THEN f[q] ELSE None]

\* open(p, 'w+'): the file exists and is empty
OpenTrunc(f, p) == [q \in DOMAIN f \cup {p} |-> IF q = p THEN None ELSE f[q]]

\* json.dump(value, fp) and the close that flushes it: the text goes after
\* what the file holds
WriteJson(f, p, value) ==
    [q \in DOMAIN f \cup {p} |->
        IF q = p THEN (IF p \in DOMAIN f THEN f[p] ELSE None) \o <<value>> ELSE f[q]]

NoFiles == [q \in {} |-> None]

-----------------------------------------------------------------------------
(* Member.dump_json *)

\* line 91
MembersDir(base_path) == base_path \o <<"/", "members">>
\* line 92
BaseURIMembers(base_URI) == base_URI \o <<"members/">>
\* line 93
ResourceName(m) == m.uuid \o <<".json">>
\* line 96
SummaryPath(m, base_path) == MembersDir(base_path) \o <<"/">> \o ResourceName(m)
\* one activities directory for all members
ActivitiesDirShared(m, base_path) == MembersDir(base_path) \o <<"/", "activities">>
\* line 103
ActivitiesDir(m, base_path) == MembersDir(base_path) \o <<"/">> \o m.uuid
\* line 109
YearPath(m, base_path, year) == ActivitiesDir(m, base_path) \o <<"/">> \o year \o <<".json">>
\* line 111
YearURI(m, base_URI, year) == BaseURIMembers(base_URI) \o m.uuid \o <<"/">> \o year \o <<".json">>
\* line 116
SummaryURI(m, base_URI) == BaseURIMembers(base_URI) \o ResourceName(m)

\* lines 97-98
ReplacesJson(m, base_URI) ==
    [i \in 1..Len(m.replaces) |->
        [ member |-> BaseURIMembers(base_URI) \o m.replaces[i].member \o <<".json">>,
          dates  |-> m.replaces[i].dates ]]

\* activity_uris once the loop of lines 108-111 has run over the first n years
ActivityURIs(m, base_URI, n) ==
    LET activity_dict == GroupActivities(m, base_URI)
    IN  [i \in 1..n |-> <<activity_dict[i][1], YearURI(m, base_URI, activity_dict[i][1])>>]

\* the object of lines 113-114
SummaryJson(m, base_URI) ==
    [ id            |-> m.uuid,
      first_name    |-> m.first_name,
      last_name     |-> m.last_name,
      gender        |-> m.gender,
      date_of_birth |-> Isoformat(m.date_of_birth),
      language      |-> m.language,
      province      |-> m.province,
      party         |-> m.party,
      wiki          |-> m.url,
      replaces      |-> ReplacesJson(m, base_URI),
      activities    |-> ActivityURIs(m, base_URI, Len(GroupActivities(m, base_URI))),
      photo_url     |-> m.photo_url ]

\* the loop of lines 108-111, from its i-th pass on
RECURSIVE WriteYears(_, _, _, _, _)
WriteYears(f, m, base_path, base_URI, i) ==
    LET activity_dict == GroupActivities(m, base_URI)
    IN  IF i > Len(activity_dict) THEN f
        ELSE LET p == YearPath(m, base_path, activity_dict[i][1])
             IN  WriteYears(WriteJson(OpenTrunc(f, p), p, activity_dict[i][2]),
                            m, base_path, base_URI, i + 1)

\* the files after dump_json
DumpFiles(m, base_path, base_URI, f) ==
    LET f1 == OpenTrunc(f, SummaryPath(m, base_path))
        f2 == WriteYears(f1, m, base_path, base_URI, 1)
    IN  WriteJson(f2, SummaryPath(m, base_path), SummaryJson(m, base_URI))

\* the directories after dump_json
DumpDirs(m, base_path, d) ==
    MakeDirs(MakeDirs(d, MembersDir(base_path)), ActivitiesDir(m, base_path))

-----------------------------------------------------------------------------
(* dump_json as the sequence of its file operations *)

\* the two file operations of one pass of the loop of lines 108-111
YearOps(m, base_path, base_URI, i) ==
    LET entry == GroupActivities(m, base_URI)[i]
        p == YearPath(m, base_path, entry[1])
    IN  << [op |-> "open", path |-> p, value |-> None],
           [op |-> "write", path |-> p, value |-> Some(entry[2])] >>

RECURSIVE YearOpsFrom(_, _, _, _)
YearOpsFrom(m, base_path, base_URI, i) ==
    IF i > Len(GroupActivities(m, base_URI)) THEN <<>>
    ELSE YearOps(m, base_path, base_URI, i) \o YearOpsFrom(m, base_path, base_URI, i + 1)

\* a dump_json that writes the summary before the year files
DumpProgramSummaryFirst(m, base_path, base_URI) ==
    << [op |-> "makedirs", path |-> MembersDir(base_path), value |-> None],
       [op |-> "open", path |-> SummaryPath(m, base_path), value |-> None],
       [op |-> "makedirs", path |-> ActivitiesDir(m, base_path), value |-> None],
       [op |-> "write", path |-> SummaryPath(m, base_path),
        value |-> Some(SummaryJson(m, base_URI))] >>
    \o YearOpsFrom(m, base_path, base_URI, 1)

\* lines 94 (makedirs), 96 (open), 104 (makedirs), 109-110 per year (open,
\* dump and close), 113-114 (dump, and the close at the end of the with block)
DumpProgram(m, base_path, base_URI) ==
    << [op |-> "makedirs", path |-> MembersDir(base_path), value |-> None],
       [op |-> "open", path |-> SummaryPath(m, base_path), value |-> None],
       [op |-> "makedirs", path |-> ActivitiesDir(m, base_path), value |-> None] >>
    \o YearOpsFrom(m, base_path, base_URI, 1)
    \o << [op |-> "write", path |-> SummaryPath(m, base_path),
           value |-> Some(SummaryJson(m, base_URI))] >>

\* the directories after one file operation
ExecDirs(o, d) == IF o.op = "makedirs" THEN MakeDirs(d, o.path) ELSE d

\* the files after one file operation
ExecFiles(o, f) ==
    CASE o.op = "open" -> OpenTrunc(f, o.path)
      [] o.op = "write" -> WriteJson(f, o.path, Head(o.value))
      [] OTHER -> f

-----------------------------------------------------------------------------
(* Member.from_json *)

\* json_entry.get(key)
JsonGet(json_entry, key) ==
    IF key \in DOMAIN json_entry THEN Some(json_entry[key]) ELSE None

\* a from_json that passes the two names in the wrong order
from_json_Swapped(json_entry) ==
    NewMember([ first_name        |-> json_entry.last_name,
                last_name         |-> json_entry.first_name,
                party             |-> json_entry.party,
                province          |-> json_entry.province,
                language          |-> json_entry.language,
                url               |-> json_entry.wiki,
                alternative_names |-> JsonGet(json_entry, "alternative_names"),
                gender            |-> json_entry.gender,
                date_of_birth     |-> DateparserParse(json_entry.date_of_birth),
                photo_url         |-> IF JsonGet(json_entry, "photo_url") = None THEN None
                                      ELSE Head(JsonGet(json_entry, "photo_url")) ])

from_json(json_entry) ==
    NewMember([ first_name        |-> json_entry.first_name,
                last_name         |-> json_entry.last_name,
                party             |-> json_entry.party,
                province          |-> json_entry.province,
                language          |-> json_entry.language,
                url               |-> json_entry.wiki,
                alternative_names |-> JsonGet(json_entry, "alternative_names"),
                gender            |-> json_entry.gender,
                date_of_birth     |-> DateparserParse(json_entry.date_of_birth),
                photo_url         |-> IF JsonGet(json_entry, "photo_url") = None THEN None
                                      ELSE Head(JsonGet(json_entry, "photo_url")) ])

-----------------------------------------------------------------------------
(* the values the calls are made with *)

Args(first_name, last_name, party, province, alternative_names, url, date_of_birth) ==
    [ first_name        |-> first_name,
      last_name         |-> last_name,
      party             |-> party,
      province          |-> province,
      language          |-> <<"nl">>,
      url               |-> url,
      alternative_names |-> alternative_names,
      gender            |-> <<"F">>,
      date_of_birth     |-> date_of_birth,
      photo_url         |-> None ]

Born1970 == [year |-> 1970, rest |-> "01-31"]
Born1980 == [year |-> 1980, rest |-> "12-01"]

\* all texts over the characters cs, no longer than n
TextsUpTo(cs, n) == UNION { [1..k -> cs] : k \in 0..n }

ActivityPool ==
    { [id |-> "act1", date |-> [year |-> 2021, rest |-> "01-01T10:00:00"]],
      [id |-> "act2", date |-> [year |-> 2021, rest |-> "01-01T10:00:00"]],
      [id |-> "act3", date |-> [year |-> 2021, rest |-> "05-05T09:00:00"]],
      [id |-> "act4", date |-> [year |-> 2022, rest |-> "03-03T09:00:00"]] }

Act(id) == CHOOSE a \in ActivityPool : a.id = id

ReplacesPool ==
    { <<>>,
      << [member |-> <<"sha1:", "62">>, dates |-> <<"2021-02-01", "2021-03-01">>],
         [member |-> <<"sha1:", "61">>, dates |-> <<"2022-01-01", "2022-01-02">>] >> }

BasePaths == { <<"out">> }
BaseURIs == { <<"/">>, <<"https://", "x", "/">> }

\* the members of the life-cycle specification
LifeArgs ==
    { Args(fn, <<"b">>, party, <<"a">>, None, None, Born1970) :
        fn \in { <<"a">>, <<"a_acute">> }, party \in { <<"p1">>, <<"p2">> } }
LifeQueries == { <<"B">>, <<"a">> }

\* the members and the queries of the name-matching specification
AltPool == { <<>>, <<"a">>, <<"A", " ">> }
NameArgs ==
    { Args(fn, ln, <<"p1">>, <<"a">>, alt, None, Born1970) :
        fn \in { <<>>, <<"a">>, <<"A">> },
        ln \in { <<>>, <<"b">>, <<"B", "a">> },
        alt \in { None } \cup { Some(l) : l \in TextsUpTo(AltPool, MaxAlt) } }
Queries == TextsUpTo({ "a", "a_acute", "B", " " }, MaxQueryLen)

\* the members of the identifier specification
IdTexts == { <<>>, <<"a">>, <<"b">>, <<"a", "b">> }
IdArgs ==
    { Args(fn, ln, <<"p1">>, prov, None, None, Born1970) :
        fn \in IdTexts, ln \in IdTexts, prov \in IdTexts }

\* the members of the round-trip specification
RoundTripArgs ==
    { Args(fn, ln, <<"p1">>, prov, alt, url, born) :
        fn \in { <<"a">>, <<"a_acute">> },
        ln \in { <<>>, <<"B", "a">> },
        prov \in { <<"a">>, <<"b">> },
        alt \in { None, Some(<< <<"a">> >>) },
        url \in { None, Some(<<"wiki/", "x">>) },
        born \in { Born1970, Born1980 } }

-----------------------------------------------------------------------------
(* the calls *)

Procs == {1, 2}

Call(op, arg) ==
    [op |-> op, arg |-> arg, again |-> lastCall.op = op /\ lastCall.arg = arg]

\* hist after a call that changes the member
HistChanged == IF hist \in {"dumped", "changed"} THEN "changed" ELSE hist

\* hist after a dump_json
HistDumped == IF hist = "new" THEN "dumped" ELSE IF hist = "dumped" THEN "dumped" ELSE "redumped"

EmptyTree == [dirs |-> {}, files |-> NoFiles]

stepVars == <<pc, killed, call, tree0>>

\* nothing runs step by step
NoSteps ==
    /\ pc = [p \in Procs |-> 1]
    /\ killed = {}
    /\ call = [p \in Procs |-> [base_path |-> <<"out">>, base_URI |-> <<"/">>]]
    /\ tree0 = EmptyTree

\* Member(...): one member on an empty disk
Constructed(argsPool) ==
    /\ ctor \in argsPool
    /\ member = NewMember(ctor)
    /\ member2 = NewMember(ctor)
    /\ dirs = {}
    /\ files = NoFiles
    /\ ret = None
    /\ lastCall = [op |-> "__init__", arg |-> <<>>, again |-> FALSE]
    /\ hist = "new"
    /\ NoSteps

PostActivity ==
    /\ Len(member.activities) < MaxActs
    /\ \E activity \in ActivityPool : member' = post_activity(member, activity)
    /\ ret' = None
    /\ lastCall' = Call("post_activity", <<>>)
    /\ hist' = HistChanged
    /\ UNCHANGED <<ctor, member2, dirs, files, stepVars>>

SetReplaces ==
    /\ \E replaces \in ReplacesPool : member' = set_replaces(member, replaces)
    /\ ret' = None
    /\ lastCall' = Call("set_replaces", <<>>)
    /\ hist' = HistChanged
    /\ UNCHANGED <<ctor, member2, dirs, files, stepVars>>

HasName ==
    /\ \E query \in LifeQueries :
          /\ ret' = has_name(member, query)
          /\ lastCall' = Call("has_name", <<query>>)
    /\ UNCHANGED <<ctor, member, member2, dirs, files, hist, stepVars>>

DumpJson ==
    /\ \E base_path \in BasePaths, base_URI \in BaseURIs :
          /\ dirs' = DumpDirs(member, base_path, dirs)
          /\ files' = DumpFiles(member, base_path, base_URI, files)
          /\ ret' = SummaryURI(member, base_URI)
          /\ lastCall' = Call("dump_json", <<base_path, base_URI>>)
    /\ hist' = HistDumped
    /\ UNCHANGED <<ctor, member, member2, stepVars>>

Init == Constructed(LifeArgs)

Next == PostActivity \/ SetReplaces \/ HasName \/ DumpJson

Spec == Init /\ [][Next]_vars

-----------------------------------------------------------------------------
(* has_name on its own *)

HasNameOnce ==
    /\ lastCall.op = "__init__"
    /\ \E query \in Queries :
          /\ ret' = has_name(member, query)
          /\ lastCall' = Call("has_name", <<query>>)
    /\ UNCHANGED <<ctor, member, member2, dirs, files, hist, stepVars>>

InitNames == Constructed(NameArgs)

NextNames == HasNameOnce

SpecNames == InitNames /\ [][NextNames]_vars

-----------------------------------------------------------------------------
(* two members and their identifiers *)

ConstructOther ==
    /\ \E a \in IdArgs : member2' = NewMember(a)
    /\ lastCall' = Call("Member", <<>>)
    /\ UNCHANGED <<ctor, member, dirs, files, ret, hist, stepVars>>

InitIds == Constructed(IdArgs)

NextIds == ConstructOther

SpecIds == InitIds /\ [][NextIds]_vars

-----------------------------------------------------------------------------
(* dump_json, then from_json on the summary it wrote *)

FromJson ==
    /\ \E base_path \in BasePaths :
          /\ SummaryPath(member, base_path) \in DOMAIN files
          /\ files[SummaryPath(member, base_path)] # None
          /\ member2' = from_json(Head(files[SummaryPath(member, base_path)]))
          /\ lastCall' = Call("from_json", <<base_path>>)
    /\ ret' = None
    /\ UNCHANGED <<ctor, member, dirs, files, hist, stepVars>>

InitRoundTrip == Constructed(RoundTripArgs)

NextRoundTrip == SetReplaces \/ DumpJson \/ FromJson

SpecRoundTrip == InitRoundTrip /\ [][NextRoundTrip]_vars

-----------------------------------------------------------------------------
(* two dump_json calls on one base_path, one file operation at a time *)

RECURSIVE PostAll(_, _)
PostAll(m, activities) ==
    IF activities = <<>> THEN m
    ELSE PostAll(post_activity(m, Head(activities)), Tail(activities))

\* the member of the first call, its activities, and those of the second call
StepArgs1 == Args(<<"a">>, <<"b">>, <<"p1">>, <<"a">>, None, None, Born1970)
StepActs1 ==
    { <<>>, <<Act("act1")>>, <<Act("act4"), Act("act1")>>, <<Act("act1"), Act("act2")>> }
StepActs2 == { <<Act("act3")>>, <<Act("act1"), Act("act4")>> }
\* the member of the second call: another identifier, or the same one
StepArgs2 ==
    { Args(<<"b">>, <<"b">>, <<"p2">>, <<"a">>, None, None, Born1980),
      Args(<<"a">>, <<"b">>, <<"p2">>, <<"a">>, None, None, Born1980) }

\* the member a running dump_json is called on
Mem(p) == IF p = 1 THEN member ELSE member2

Program(p) == DumpProgram(Mem(p), call[p].base_path, call[p].base_URI)

Running(p) == p \notin killed /\ pc[p] <= Len(Program(p))

Completed(p) == p \notin killed /\ pc[p] > Len(Program(p))

\* the tree a completed dump_json of m left on an empty disk
TreeAfterDump(m, base_path, base_URI) ==
    [dirs  |-> DumpDirs(m, base_path, {}),
     files |-> DumpFiles(m, base_path, base_URI, NoFiles)]

InitSteps ==
    /\ ctor = StepArgs1
    /\ \E a1 \in StepActs1, a2 \in StepActs2, c2 \in StepArgs2,
          base_path \in BasePaths, u0 \in BaseURIs :
          /\ member = PostAll(NewMember(ctor), a1)
          /\ member2 = PostAll(NewMember(c2), a2)
          /\ call = [p \in Procs |->
                        [base_path |-> base_path,
                         base_URI  |-> <<"/">>]]
          \* an empty tree, or the tree of an earlier completed dump_json of the
          \* first member, made when it had its first k activities
          /\ \/ tree0 = EmptyTree /\ hist = "new"
             \/ \E k \in 0..Len(a1) :
                   /\ tree0 = TreeAfterDump(PostAll(NewMember(ctor), SubSeq(a1, 1, k)),
                                            base_path, u0)
                   /\ hist = IF k = Len(a1) THEN "dumped" ELSE "changed"
    /\ dirs = tree0.dirs
    /\ files = tree0.files
    /\ ret = None
    /\ lastCall = [op |-> "post_activity", arg |-> <<>>, again |-> FALSE]
    /\ pc = [p \in Procs |-> 1]
    /\ killed = {}

\* the next file operation of call p
Step(p) ==
    /\ Running(p)
    /\ dirs' = ExecDirs(Program(p)[pc[p]], dirs)
    /\ files' = ExecFiles(Program(p)[pc[p]], files)
    /\ pc' = [pc EXCEPT ![p] = @ + 1]
    /\ UNCHANGED <<ctor, member, member2, ret, lastCall, hist, killed, call, tree0>>

\* call p is interrupted between two file operations
Interrupt(p) ==
    /\ Running(p)
    /\ killed' = killed \cup {p}
    /\ UNCHANGED <<ctor, member, member2, dirs, files, ret, lastCall, hist, pc, call, tree0>>

NextSteps == \E p \in Procs : Step(p) \/ Interrupt(p)

SpecSteps == InitSteps /\ [][NextSteps]_vars

-----------------------------------------------------------------------------
(* what the claims speak of *)

\* p is a path below directory d
IsUnder(p, d) == Len(p) > Len(d) + 1 /\ SubSeq(p, 1, Len(d)) = d /\ p[Len(d) + 1] = "/"

Keys(d) == { d[i][1] : i \in 1..Len(d) }

NoKeyTwice(d) == \A i, j \in 1..Len(d) : d[i][1] = d[j][1] => i = j

Posted(m) == { m.activities[i] : i \in 1..Len(m.activities) }

\* the calendar years of the member's activities, as str(year)
YearsOf(m) == { <<IntStr(a.date.year)>> : a \in Posted(m) }

\* the ISO timestamps of the member's activities dated in year y
StampsIn(m, y) == { Isoformat(a.date) : a \in { b \in Posted(m) : <<IntStr(b.date.year)>> = y } }

\* the serialized activities dated exactly t, in the order they were posted
RECURSIVE PostedAt(_, _, _)
PostedAt(activities, t, base_URI) ==
    IF activities = <<>> THEN <<>>
    ELSE (IF Isoformat(Head(activities).date) = t
          THEN <<ActivityDict(Head(activities), base_URI)>> ELSE <<>>)
         \o PostedAt(Tail(activities), t, base_URI)

\* members/{uuid}.json and members/{uuid}/{year}.json below base_path
SummaryFile(m, base_path) == base_path \o <<"/", "members", "/">> \o m.uuid \o <<".json">>
YearFile(m, base_path, y) ==
    base_path \o <<"/", "members", "/">> \o m.uuid \o <<"/">> \o y \o <<".json">>
MemberSubtree(m, base_path) == base_path \o <<"/", "members", "/">> \o m.uuid

\* the files of member m below base_path, with their contents
MemberFiles(f, m, base_path) ==
    [p \in { q \in DOMAIN f : q = SummaryFile(m, base_path)
                              \/ IsUnder(q, MemberSubtree(m, base_path)) } |-> f[p]]

DumpCompleted == lastCall.op = "dump_json"

-----------------------------------------------------------------------------
(* C1: in every state reached by post_activity, set_replaces, has_name and  *)
(* dump_json calls the member's uuid is the digest of first_name +          *)
(* last_name + province as given to the constructor; no other field and no  *)
(* call changes it.                                                         *)
C1_UuidStable ==
    member.uuid = Sha1Hex10(Utf8(ctor.first_name \o ctor.last_name \o ctor.province))

C1_Witness ==
    /\ DumpCompleted
    /\ hist = "redumped"
    /\ member.activities # <<>>
    /\ member.replaces # <<>>
    /\ ctor.party = <<"p2">>

(* C3: after a completed dump_json the year files of the member are exactly *)
(* one per calendar year of its activities; the file of year y maps each    *)
(* ISO timestamp of an activity of y to the serialized activities dated     *)
(* exactly then, in posting order; the summary maps exactly those years to  *)
(* base_URI + "members/" + uuid + "/" + year + ".json".                     *)
C3_YearPartition ==
    DumpCompleted =>
        LET base_path == lastCall.arg[1]
            base_URI  == lastCall.arg[2]
            summary   == files[SummaryFile(member, base_path)]
        IN  /\ { p \in DOMAIN files : IsUnder(p, MemberSubtree(member, base_path)) }
                 = { YearFile(member, base_path, y) : y \in YearsOf(member) }
            /\ \A y \in YearsOf(member) :
                  LET text == files[YearFile(member, base_path, y)]
                  IN  /\ Len(text) = 1
                      /\ NoKeyTwice(text[1])
                      /\ Keys(text[1]) = StampsIn(member, y)
                      /\ \A t \in Keys(text[1]) :
                            DictGet(text[1], t) = PostedAt(member.activities, t, base_URI)
            /\ Len(summary) = 1
            /\ NoKeyTwice(summary[1].activities)
            /\ Keys(summary[1].activities) = YearsOf(member)
            /\ \A y \in YearsOf(member) :
                  DictGet(summary[1].activities, y)
                      = base_URI \o <<"members/">> \o member.uuid \o <<"/">> \o y \o <<".json">>

\* two years, posted latest first
C3_Witness ==
    /\ DumpCompleted
    /\ Cardinality(YearsOf(member)) = 2
    /\ Len(member.activities) >= 2
    /\ member.activities[1].date.year > member.activities[2].date.year

\* a dump of two activities with the same timestamp
C3_SameStampReached ==
    /\ DumpCompleted
    /\ Len(member.activities) = 2
    /\ member.activities[1].id # member.activities[2].id
    /\ member.activities[1].date = member.activities[2].date

(* C4: a dump_json right after a dump_json with the same base_path and      *)
(* base_URI leaves the files, their contents and the directories as they    *)
(* were and returns the same URI; no dump_json changes the member.          *)
C4_DumpIdempotent ==
    [][ lastCall'.op = "dump_json" =>
          /\ member' = member
          /\ (lastCall.op = "dump_json" /\ lastCall'.arg = lastCall.arg) =>
                (files' = files /\ dirs' = dirs /\ ret' = ret) ]_vars

C4_Witness ==
    /\ DumpCompleted
    /\ lastCall.again
    /\ member.activities # <<>>

(* C7: after any sequence of calls that ends with a completed dump_json the *)
(* member's files are exactly those, with the contents, that one dump_json  *)
(* of the member as it is now writes below an empty base directory.         *)
C7_DumpSupersedes ==
    DumpCompleted =>
        LET base_path == lastCall.arg[1]
            base_URI  == lastCall.arg[2]
        IN  /\ MemberFiles(files, member, base_path)
                 = DumpFiles(member, base_path, base_URI, NoFiles)
            /\ \A p \in DOMAIN files :
                  IsUnder(p, MemberSubtree(member, base_path)) =>
                      \E i \in 1..Len(files[SummaryFile(member, base_path)][1].activities) :
                          YearFile(member, base_path,
                                   files[SummaryFile(member, base_path)][1].activities[i][1]) = p

\* a dump, then a change of the member, then the dump the claim is about
C7_Witness ==
    /\ DumpCompleted
    /\ hist = "redumped"
    /\ Len(member.activities) = MaxActs
    /\ Cardinality(YearsOf(member)) = 2

-----------------------------------------------------------------------------
(* C2: has_name(query) is true exactly when normalize(query) is the         *)
(* normalized form of an alternative name, of last_name, of "last first"    *)
(* or of "first last"; queries with one normalized form get one result.     *)
C2_HasNameIff ==
    lastCall.op = "has_name" =>
        LET q == normalize_str(lastCall.arg[1])
            alts == IF member.alternative_names = None THEN {}
                    ELSE { member.alternative_names[1][i] :
                              i \in 1..Len(member.alternative_names[1]) }
        IN  /\ ret = ( \/ \E a \in alts : q = normalize_str(a)
                       \/ q = normalize_str(member.last_name)
                       \/ q = normalize_str(member.last_name \o <<" ">> \o member.first_name)
                       \/ q = normalize_str(member.first_name \o <<" ">> \o member.last_name) )
            /\ \A other \in Queries :
                  normalize_str(other) = q => has_name(member, other) = ret

\* matched in first-name-first order only, by a query spelled otherwise
C2_Witness ==
    /\ lastCall.op = "has_name"
    /\ ret = TRUE
    /\ member.alternative_names = None
    /\ lastCall.arg[1] # member.first_name \o <<" ">> \o member.last_name
    /\ normalize_str(lastCall.arg[1]) # normalize_str(member.last_name)
    /\ normalize_str(lastCall.arg[1])
          # normalize_str(member.last_name \o <<" ">> \o member.first_name)

(* C8: has_name("") is false whatever the member's names are.               *)
C8_EmptyQueryFails ==
    (lastCall.op = "has_name" /\ lastCall.arg[1] = <<>>) => ret = FALSE

(* C6: two members have the same identifier exactly when their              *)
(* (first_name, last_name, province) triples are equal.                     *)
C6_IdentifierInjective ==
    lastCall.op = "Member" =>
        ( (member.uuid = member2.uuid)
          <=> ( /\ member.first_name = member2.first_name
                /\ member.last_name = member2.last_name
                /\ member.province = member2.province ) )

(* C5: from_json on the summary dump_json wrote gives a member with the     *)
(* same uuid (the record's id), first_name, last_name and date of birth.    *)
C5_RoundTrip ==
    lastCall.op = "from_json" =>
        /\ member2.uuid = member.uuid
        /\ member2.uuid = files[SummaryFile(member, lastCall.arg[1])][1].id
        /\ member2.first_name = member.first_name
        /\ member2.last_name = member.last_name
        /\ member2.date_of_birth = member.date_of_birth

\* the member read back differs from the one dumped in what the summary omits
C5_Witness ==
    /\ lastCall.op = "from_json"
    /\ member.first_name = <<"a_acute">>
    /\ member.date_of_birth = Born1980
    /\ member.replaces # <<>>
    /\ member2.alternative_names # member.alternative_names

-----------------------------------------------------------------------------
\* the files call p opens or writes, and the directories it makes
Written(p) ==
    { Program(p)[i].path : i \in { j \in 1..Len(Program(p)) : Program(p)[j].op # "makedirs" } }
DirsMade(p) ==
    UNION { MakeDirs({}, Program(p)[i].path) :
               i \in { j \in 1..Len(Program(p)) : Program(p)[j].op = "makedirs" } }

(* C9: two dump_json calls for members with different identifiers on one    *)
(* base_path write disjoint files and share only the members/ directory     *)
(* (and its parents); once both completed, however interleaved, the tree is *)
(* the one either sequential order leaves.                                  *)
C9_ConcurrentDumps ==
    member.uuid # member2.uuid =>
        /\ Written(1) \cap Written(2) = {}
        /\ DirsMade(1) \cap DirsMade(2) = MakeDirs({}, call[1].base_path \o <<"/", "members">>)
        /\ (Completed(1) /\ Completed(2)) =>
              /\ files = DumpFiles(member2, call[2].base_path, call[2].base_URI,
                            DumpFiles(member, call[1].base_path, call[1].base_URI, tree0.files))
              /\ files = DumpFiles(member, call[1].base_path, call[1].base_URI,
                            DumpFiles(member2, call[2].base_path, call[2].base_URI, tree0.files))
              /\ dirs = DumpDirs(member2, call[2].base_path,
                            DumpDirs(member, call[1].base_path, tree0.dirs))

\* both calls completed, both wrote a file of the same year
C9_Witness ==
    /\ member.uuid # member2.uuid
    /\ Completed(1) /\ Completed(2)
    /\ YearsOf(member) \cap YearsOf(member2) # {}
    /\ tree0 # EmptyTree

\* some summary on disk names a year whose file is not on disk
DanglingReference ==
    \E p \in Procs :
        LET summary == SummaryFile(Mem(p), call[p].base_path)
        IN  /\ summary \in DOMAIN files
            /\ files[summary] # None
            /\ \E i \in 1..Len(files[summary][1].activities) :
                  YearFile(Mem(p), call[p].base_path, files[summary][1].activities[i][1])
                      \notin DOMAIN files

(* C10, as amended: wherever a dump_json is interrupted, every year file    *)
(* that a summary on disk references is on disk; what an interrupted        *)
(* dump_json can leave is an empty summary beside year files.               *)
C10_NoDanglingReference == ~DanglingReference

\* interrupted after a year file was written: the summary is empty
C10_Witness ==
    /\ 1 \in killed
    /\ pc[2] = 1
    /\ tree0 # EmptyTree
    /\ files[SummaryFile(member, call[1].base_path)] = None
    /\ \E p \in DOMAIN files \ DOMAIN tree0.files :
          IsUnder(p, MemberSubtree(member, call[1].base_path)) /\ files[p] # None

(* C10, as claimed: a dump_json interrupted after it opened the summary and *)
(* while a year file of its member is still to be written leaves a summary  *)
(* that references a year file that is not on disk.                         *)
C10_DanglingReferenceLeft ==
    \A p \in killed :
        ( /\ pc[p] > 2
          /\ \E y \in YearsOf(Mem(p)) :
                YearFile(Mem(p), call[p].base_path, y) \notin DOMAIN files )
            => DanglingReference

=============================================================================
